---- MODULE Spec2Model ----
(***************************************************************************)
(* Heart rate monitor (src/src/main.js): the monitoring lifecycle          *)
(* (toggleMonitoring, startMonitoring, stopMonitoring, monitorLoop), the   *)
(* sample buffer and the per-frame pipeline (processFrame, analyzeData,    *)
(* getAverageCrossings, calculateBpm).                                     *)
(*                                                                         *)
(* The browser runs one task at a time: a click handler, the continuation  *)
(* of an await, a timer callback or an animation-frame callback.  Each is  *)
(* one action here.  Sample values are whole numbers of brightness units   *)
(* (the sampler's channel sum; the code divides it by a constant that      *)
(* depends only on the canvas size), and the mean of a buffer is kept as   *)
(* the exact fraction num/den, so that comparing a value with the mean is  *)
(* exact.                                                                  *)
(***************************************************************************)
EXTENDS Integers, Sequences, FiniteSets

\* ------------------------------------------------------------ bounds
\* Capacity of SAMPLE_BUFFER (60 * 5 in the code), scaled down.
MAX_SAMPLES == 4
\* Brightest channel level a camera frame holds (255 in the code), scaled down.
MaxLevel == 1
\* Largest value Date.now() returns.
MaxTime == 1
\* Number of startMonitoring calls in a run.
MaxStarts == 2
\* Largest sample value of the inputs the analysis is applied to on its own.
MaxValue == 2
\* Longest crossing sequence calculateBpm is applied to on its own, and the
\* largest time such a crossing carries.
\* Largest width of the graph canvas, and largest height of it left between
\* the two insets of one line width.
MaxCanvasWidth == 2
MaxPlotHeight == 2
MaxCrossings == 3
\* Samples per second of the periodic signal the analysis is applied to (60 in
\* the code, whose buffer holds 60 * 5 samples), scaled down.
SamplesPerSecond == 12
\* Largest number of pixels of a frame averageBrightness is applied to.
MaxPixels == 2
MaxCrossTime == 5

\* Samples carry a serial number modulo SeqMod: it tells apart the samples a
\* window of MAX_SAMPLES + 1 consecutive pushes holds.
SeqMod == MAX_SAMPLES + 2

VARIABLES
    MONITORING,     \* let MONITORING
    VIDEO_STREAM,   \* let VIDEO_STREAM: "undefined" or "stream"
    SAMPLE_BUFFER,  \* const SAMPLE_BUFFER: sequence of [value, time, seq]
    bpmDisplay,     \* BPM_ELEMENT.innerText: "" or a number or "Infinity"
    now,            \* the last value Date.now() returned
    calls,          \* the startMonitoring invocations and where each stands
    rafPending,     \* requestAnimationFrame(monitorLoop) callbacks not yet run
    torchSupport,   \* how applyConstraints({torch}) ends on this device
    torchReport,    \* per startMonitoring call: what became of its torch call
    stopped,        \* stopMonitoring has run and startMonitoring not since
    sessionRan,     \* MONITORING was set since the last resetBuffer
    pushCount,      \* pushes since the last resetBuffer, up to MAX_SAMPLES + 1
    nextSeq,        \* serial number of the next sample
    result          \* the value an analysis applied on its own returned

vars == <<MONITORING, VIDEO_STREAM, SAMPLE_BUFFER, bpmDisplay, now, calls,
          rafPending, torchSupport, torchReport, stopped, sessionRan,
          pushCount, nextSeq, result>>

CallIds == 1..MaxStarts
Levels == 0..MaxLevel
Times == 0..MaxTime

\* ------------------------------------------------------------ sampler
\* A frame of the sampling canvas: IMAGE_WIDTH * IMAGE_HEIGHT pixels of
\* r, g, b, a.  The frames the camera delivers are an evenly lit fingertip:
\* every pixel (level, 0, 0, MaxLevel).
IMAGE_WIDTH == 1
IMAGE_HEIGHT == 1

UniformFrame(level) ==
    [i \in 1..(4 * IMAGE_WIDTH * IMAGE_HEIGHT) |->
        IF i % 4 = 1 THEN level ELSE IF i % 4 = 0 THEN MaxLevel ELSE 0]

CameraFrames == {UniformFrame(level) : level \in Levels}

RECURSIVE SumRGB(_, _)
SumRGB(pixelData, i) ==
    IF i > Len(pixelData) THEN 0
    ELSE pixelData[i] + pixelData[i + 1] + pixelData[i + 2]
         + SumRGB(pixelData, i + 4)

\* samplers.basicAvgLightness: the sum of the r, g, b channels; the code
\* returns it divided by pixelData.length * 0.75 * 255.
basicAvgLightness(pixelData) == SumRGB(pixelData, 1)

\* A plausible slip: the blue channel summed as well, as basicAvgLightness
\* does.
averageBrightnessBlue(pixelData) ==
    [num |-> 2 * SumRGB(pixelData, 1), den |-> Len(pixelData) * MaxLevel]

RECURSIVE SumRG(_, _)
SumRG(pixelData, i) ==
    IF i > Len(pixelData) THEN 0
    ELSE pixelData[i] + pixelData[i + 1] + SumRG(pixelData, i + 4)

\* averageBrightness of the heartRateMonitor module (README.md): the sum of
\* the r and g channels, divided by pixelData.length * 0.5, then by 255; kept
\* as the fraction num / den.
averageBrightness(pixelData) ==
    [num |-> 2 * SumRG(pixelData, 1), den |-> Len(pixelData) * MaxLevel]

\* ------------------------------------------------------------ analysis
RECURSIVE SumValues(_, _)
SumValues(samples, i) ==
    IF i > Len(samples) THEN 0 ELSE samples[i].value + SumValues(samples, i + 1)

\* value < average and value > average, for average = num / den, den > 0
Below(value, average) == value * average.den < average.num
Above(value, average) == value * average.den > average.num

RECURSIVE CrossingsLoop(_, _, _, _, _)
CrossingsLoop(samples, average, i, previousSample, crossingsSamples) ==
    IF i > Len(samples) THEN crossingsSamples
    ELSE LET currentSample == samples[i]
         IN CrossingsLoop(samples, average, i + 1, currentSample,
                IF Below(currentSample.value, average)
                   /\ Above(previousSample.value, average)
                THEN Append(crossingsSamples, currentSample)
                ELSE crossingsSamples)

\* A plausible slip: previousSample starts above every value instead of at
\* samples[0].
getAverageCrossingsNoFirst(samples, average) ==
    CrossingsLoop(samples, average, 1,
                  [value |-> average.num + 1, time |-> 0, seq |-> 0], <<>>)

getAverageCrossings(samples, average) ==
    CrossingsLoop(samples, average, 1, samples[1], <<>>)

\* A plausible slip: the comparison of the maximum in the minimum.
RECURSIVE MinLoopGreater(_, _, _)
MinLoopGreater(samples, i, min) ==
    IF i > Len(samples) THEN min
    ELSE MinLoopGreater(samples, i + 1,
                 IF samples[i].value > min THEN samples[i].value ELSE min)

RECURSIVE MinLoop(_, _, _)
MinLoop(samples, i, min) ==
    IF i > Len(samples) THEN min
    ELSE MinLoop(samples, i + 1,
                 IF samples[i].value < min THEN samples[i].value ELSE min)

RECURSIVE MaxLoop(_, _, _)
MaxLoop(samples, i, max) ==
    IF i > Len(samples) THEN max
    ELSE MaxLoop(samples, i + 1,
                 IF samples[i].value > max THEN samples[i].value ELSE max)

\* A plausible slip: the range taken from 0 instead of from min.
analyzeDataRangeFromZero(samples) ==
    LET average == [num |-> SumValues(samples, 1), den |-> Len(samples)]
        min == MinLoop(samples, 1, samples[1].value)
        max == MaxLoop(samples, 1, samples[1].value)
    IN [average |-> average,
        min |-> min,
        max |-> max,
        range |-> max,
        crossings |-> getAverageCrossings(samples, average)]

analyzeData(samples) ==
    LET average == [num |-> SumValues(samples, 1), den |-> Len(samples)]
        min == MinLoop(samples, 1, samples[1].value)
        max == MaxLoop(samples, 1, samples[1].value)
    IN [average |-> average,
        min |-> min,
        max |-> max,
        range |-> max - min,
        crossings |-> getAverageCrossings(samples, average)]

\* A plausible slip: < 1 in place of < 2.
calculateBpmOne(samples) ==
    IF Len(samples) < 1 THEN [kind |-> "undefined"]
    ELSE LET span == samples[Len(samples)].time - samples[1].time
         IN IF span = 0 THEN [kind |-> "Infinity"]
            ELSE [kind |-> "number",
                  num |-> 60000 * (Len(samples) - 1), den |-> span]

\* A plausible slip: the number of crossings in place of the number of
\* intervals between them.
calculateBpmCount(samples) ==
    IF Len(samples) < 2 THEN [kind |-> "undefined"]
    ELSE LET span == samples[Len(samples)].time - samples[1].time
         IN IF span = 0 THEN [kind |-> "Infinity"]
            ELSE [kind |-> "number",
                  num |-> 60000 * Len(samples), den |-> span]

\* calculateBpm: undefined below two crossings; else 60000 / averageInterval
\* as the fraction num/den, Infinity when the interval is 0.
calculateBpm(samples) ==
    IF Len(samples) < 2 THEN [kind |-> "undefined"]
    ELSE LET span == samples[Len(samples)].time - samples[1].time
         IN IF span = 0 THEN [kind |-> "Infinity"]
            ELSE [kind |-> "number",
                  num |-> 60000 * (Len(samples) - 1), den |-> span]

\* Math.round of a positive fraction
MathRound(bpm) == (2 * bpm.num + bpm.den) \div (2 * bpm.den)

\* BPM_ELEMENT.innerText = Math.round(bpm)
Displayed(bpm) ==
    IF bpm.kind = "Infinity" THEN [text |-> "Infinity"]
    ELSE [text |-> "number", value |-> MathRound(bpm)]

\* ------------------------------------------------------------ buffer
resetBuffer == <<>>

\* A plausible slip: pop() in place of shift().
PushSamplePop(buffer, sample) ==
    LET pushed == Append(buffer, sample)
    IN IF Len(pushed) > MAX_SAMPLES THEN SubSeq(pushed, 1, Len(pushed) - 1)
       ELSE pushed

\* A plausible slip: >= in place of >.
PushSampleEarly(buffer, sample) ==
    LET pushed == Append(buffer, sample)
    IN IF Len(pushed) >= MAX_SAMPLES THEN Tail(pushed) ELSE pushed

\* A plausible slip: shift() outside the test of the length.
PushSampleShift(buffer, sample) == Tail(Append(buffer, sample))

\* SAMPLE_BUFFER.push(sample), then shift() when the length exceeds
\* MAX_SAMPLES.
PushSample(buffer, sample) ==
    LET pushed == Append(buffer, sample)
    IN IF Len(pushed) > MAX_SAMPLES THEN Tail(pushed) ELSE pushed

\* ------------------------------------------------------------ lifecycle
Init ==
    /\ MONITORING = FALSE
    /\ VIDEO_STREAM = "undefined"
    /\ SAMPLE_BUFFER = resetBuffer
    /\ bpmDisplay = [text |-> ""]
    /\ now = 0
    /\ calls = [i \in CallIds |-> "unused"]
    /\ rafPending = 0
    /\ torchSupport \in {"ok", "throws", "rejects"}
    /\ torchReport = [i \in CallIds |-> "none"]
    /\ stopped = FALSE
    /\ sessionRan = TRUE
    /\ pushCount = 0
    /\ nextSeq = 0
    /\ result = [kind |-> "none"]

\* setTorchStatus(stream, status): "ok"; "alert" when the try block throws
\* (stream undefined, or applyConstraints throws); "silent" when the promise
\* applyConstraints returned rejects, which nothing awaits or catches.
setTorchStatus(stream) ==
    IF stream = "undefined" \/ torchSupport = "throws" THEN "alert"
    ELSE IF torchSupport = "rejects" THEN "silent"
    ELSE "ok"

\* toggleMonitoring with MONITORING false: startMonitoring up to its first
\* await (enumerateDevices).
StartMonitoring(i) ==
    /\ ~MONITORING
    /\ calls[i] = "unused"
    /\ \A j \in CallIds : j < i => calls[j] # "unused"
    /\ SAMPLE_BUFFER' = resetBuffer
    /\ calls' = [calls EXCEPT ![i] = "devices"]
    /\ stopped' = FALSE
    /\ sessionRan' = FALSE
    /\ pushCount' = 0
    /\ nextSeq' = 0
    /\ UNCHANGED <<MONITORING, VIDEO_STREAM, bpmDisplay, now, rafPending,
                   torchSupport, torchReport, result>>

\* toggleMonitoring with MONITORING true: stopMonitoring (it awaits nothing).
\* Its setTorchStatus(VIDEO_STREAM, false) and its calls on the video element
\* write none of the state kept here; no timer or animation frame is
\* cancelled.
StopMonitoring ==
    /\ MONITORING
    /\ MONITORING' = FALSE
    /\ stopped' = TRUE
    /\ UNCHANGED <<VIDEO_STREAM, SAMPLE_BUFFER, bpmDisplay, now, calls,
                   rafPending, torchSupport, torchReport, sessionRan,
                   pushCount, nextSeq, result>>

\* The await of enumerateDevices ends.  With a camera, startCameraStream
\* calls getUserMedia and awaits it.  With no videoinput device camera is
\* undefined, camera.deviceId throws inside the try block, startCameraStream
\* returns undefined and startMonitoring returns at !VIDEO_STREAM.  When
\* enumerateDevices rejects, startMonitoring ends there.
DevicesEnumerated(i, outcome) ==
    /\ calls[i] = "devices"
    /\ calls' = [calls EXCEPT ![i] =
                    IF outcome = "camera" THEN "stream" ELSE "failed"]
    /\ VIDEO_STREAM' =
            IF outcome = "nocamera" THEN "undefined" ELSE VIDEO_STREAM
    /\ UNCHANGED <<MONITORING, SAMPLE_BUFFER, bpmDisplay, now, rafPending,
                   torchSupport, torchReport, stopped, sessionRan, pushCount,
                   nextSeq, result>>

\* getUserMedia is rejected: startCameraStream alerts and returns undefined,
\* startMonitoring returns at !VIDEO_STREAM.
StreamRejected(i) ==
    /\ calls[i] = "stream"
    /\ calls' = [calls EXCEPT ![i] = "failed"]
    /\ VIDEO_STREAM' = "undefined"
    /\ UNCHANGED <<MONITORING, SAMPLE_BUFFER, bpmDisplay, now, rafPending,
                   torchSupport, torchReport, stopped, sessionRan, pushCount,
                   nextSeq, result>>

\* getUserMedia resolves: the rest of startMonitoring, to setTimeout.
StreamAcquired(i) ==
    /\ calls[i] = "stream"
    /\ VIDEO_STREAM' = "stream"
    /\ torchReport' = [torchReport EXCEPT ![i] = setTorchStatus("stream")]
    /\ MONITORING' = TRUE
    /\ sessionRan' = TRUE
    /\ calls' = [calls EXCEPT ![i] = "timer"]
    /\ UNCHANGED <<SAMPLE_BUFFER, bpmDisplay, now, rafPending, torchSupport,
                   stopped, pushCount, nextSeq, result>>

\* analyzeData(samples) on an empty array: reduce with no initial value
\* throws a TypeError (as samples[0].value would), which nothing catches.
AnalysisFaults(samples) == Len(samples) = 0

\* processFrame on the frame the canvas holds, Date.now() returning time.
\* When analyzeData throws, processFrame ends there, the display untouched.
ProcessFrame(frame, time) ==
    LET value == basicAvgLightness(frame)
        buffer == PushSample(SAMPLE_BUFFER,
                             [value |-> value, time |-> time, seq |-> nextSeq])
        dataStats == analyzeData(buffer)
        bpm == calculateBpm(dataStats.crossings)
    IN /\ SAMPLE_BUFFER' = buffer
       /\ now' = time
       /\ bpmDisplay' = IF AnalysisFaults(buffer) THEN bpmDisplay
                        ELSE IF bpm.kind = "undefined" THEN bpmDisplay
                        ELSE Displayed(bpm)
       /\ pushCount' = IF pushCount > MAX_SAMPLES THEN pushCount
                       ELSE pushCount + 1
       /\ nextSeq' = (nextSeq + 1) % SeqMod

\* monitorLoop run by the timer startMonitoring set.  An exception of
\* processFrame leaves monitorLoop before it requests an animation frame.
TimerFires(i, frame, time) ==
    /\ calls[i] = "timer"
    /\ time >= now
    /\ ProcessFrame(frame, time)
    /\ rafPending' = IF MONITORING /\ ~AnalysisFaults(SAMPLE_BUFFER')
                     THEN rafPending + 1 ELSE rafPending
    /\ calls' = [calls EXCEPT ![i] = "done"]
    /\ UNCHANGED <<MONITORING, VIDEO_STREAM, torchSupport, torchReport,
                   stopped, sessionRan, result>>

\* monitorLoop run as an animation-frame callback.
FrameFires(frame, time) ==
    /\ rafPending > 0
    /\ time >= now
    /\ ProcessFrame(frame, time)
    /\ rafPending' = IF MONITORING /\ ~AnalysisFaults(SAMPLE_BUFFER')
                     THEN rafPending ELSE rafPending - 1
    /\ UNCHANGED <<MONITORING, VIDEO_STREAM, calls, torchSupport,
                   torchReport, stopped, sessionRan, result>>

Start == \E i \in CallIds : StartMonitoring(i)
Devices == \E i \in CallIds, outcome \in {"camera", "nocamera", "rejected"} :
               DevicesEnumerated(i, outcome)
Rejected == \E i \in CallIds : StreamRejected(i)
Acquired == \E i \in CallIds : StreamAcquired(i)
Timer == \E i \in CallIds, frame \in CameraFrames, time \in Times :
             TimerFires(i, frame, time)
Frame == \E frame \in CameraFrames, time \in Times : FrameFires(frame, time)

Next ==
    \/ Start
    \/ StopMonitoring
    \/ Devices
    \/ Rejected
    \/ Acquired
    \/ Timer
    \/ Frame

Spec == Init /\ [][Next]_vars


\* ------------------------------------------------------------ fair scheduling
\* The lifecycle with the lens covered and within one millisecond: every
\* frame is dark and Date.now() stays where it is.  The browser runs every
\* timer that is due and every animation frame callback that was requested.
DarkTimer == \E i \in CallIds : TimerFires(i, UniformFrame(0), now)

DarkFrame == FrameFires(UniformFrame(0), now)

NextFair ==
    \/ Start
    \/ StopMonitoring
    \/ Devices
    \/ Rejected
    \/ Acquired
    \/ DarkTimer
    \/ DarkFrame

SpecFair ==
    Init /\ [][NextFair]_vars /\ WF_vars(DarkTimer) /\ WF_vars(DarkFrame)

\* ------------------------------------------------------------ buffer alone
\* SAMPLE_BUFFER is written in two places only: resetBuffer (called first
\* thing by startMonitoring) and processFrame (called by monitorLoop).  Each
\* runs to completion within one task, so every run of the program is, as far
\* as the buffer, the clock and the display go, a sequence of these two
\* effects.  SpecBuffer allows every such sequence; BufferStepsOnly, checked
\* under Spec, states that Spec takes no other step on the buffer.
ResetEffect ==
    /\ SAMPLE_BUFFER' = resetBuffer
    /\ pushCount' = 0
    /\ nextSeq' = 0
    /\ UNCHANGED <<bpmDisplay, now>>

TickEffect ==
    \E frame \in CameraFrames, time \in Times :
        time >= now /\ ProcessFrame(frame, time)

BufferReset ==
    /\ ResetEffect
    /\ UNCHANGED <<MONITORING, VIDEO_STREAM, calls, rafPending, torchSupport,
                   torchReport, stopped, sessionRan, result>>

BufferTick ==
    /\ TickEffect
    /\ UNCHANGED <<MONITORING, VIDEO_STREAM, calls, rafPending, torchSupport,
                   torchReport, stopped, sessionRan, result>>

NextBuffer == BufferReset \/ BufferTick

InitBuffer == Init /\ torchSupport = "ok"

SpecBuffer == InitBuffer /\ [][NextBuffer]_vars

BufferStepsOnly ==
    [][\/ ResetEffect
       \/ TickEffect
       \/ UNCHANGED <<SAMPLE_BUFFER, pushCount, nextSeq, bpmDisplay, now>>]_vars

\* ------------------------------------------------------------ analysis alone
\* The analysis of processFrame applied to a buffer content of its own:
\* every sequence of 1..MAX_SAMPLES samples with values in 0..MaxValue and
\* non-decreasing times.
NonDecreasing(n) ==
    {t \in [1..n -> Times] : \A i \in 1..n : \A j \in i..n : t[i] <= t[j]}

\* The buffer holding the values v and the times t, pushed in that order.
BufferOf(v, t) ==
    [i \in DOMAIN v |-> [value |-> v[i], time |-> t[i], seq |-> i - 1]]

InitAnalysis ==
    /\ MONITORING = FALSE
    /\ VIDEO_STREAM = "undefined"
    /\ \E n \in 1..MAX_SAMPLES :
          \E v \in [1..n -> 0..MaxValue], t \in NonDecreasing(n) :
              SAMPLE_BUFFER = BufferOf(v, t)
    /\ bpmDisplay = [text |-> ""]
    /\ now = 0
    /\ calls = [i \in CallIds |-> "unused"]
    /\ rafPending = 0
    /\ torchSupport = "ok"
    /\ torchReport = [i \in CallIds |-> "none"]
    /\ stopped = FALSE
    /\ sessionRan = TRUE
    /\ pushCount = 0
    /\ nextSeq = 0
    /\ result = [kind |-> "none"]

\* const dataStats = analyzeData(SAMPLE_BUFFER);
\* const bpm = calculateBpm(dataStats.crossings);
Analyze ==
    /\ result.kind = "none"
    /\ result' = LET dataStats == analyzeData(SAMPLE_BUFFER)
                 IN [kind |-> "done",
                     dataStats |-> dataStats,
                     bpm |-> calculateBpm(dataStats.crossings)]
    /\ UNCHANGED <<MONITORING, VIDEO_STREAM, SAMPLE_BUFFER, bpmDisplay, now,
                   calls, rafPending, torchSupport, torchReport, stopped,
                   sessionRan, pushCount, nextSeq>>

NextAnalysis == Analyze

SpecAnalysis == InitAnalysis /\ [][NextAnalysis]_vars

\* ------------------------------------------------------------ calculateBpm alone
\* The state of a page that is not monitoring and has an empty buffer.
IdlePage ==
    /\ MONITORING = FALSE
    /\ VIDEO_STREAM = "undefined"
    /\ bpmDisplay = [text |-> ""]
    /\ now = 0
    /\ calls = [i \in CallIds |-> "unused"]
    /\ rafPending = 0
    /\ torchSupport = "ok"
    /\ torchReport = [i \in CallIds |-> "none"]
    /\ stopped = FALSE
    /\ sessionRan = TRUE
    /\ pushCount = 0
    /\ nextSeq = 0

\* The crossing sequences calculateBpm is applied to: 0..MaxCrossings samples
\* of the buffer, in buffer order, so with non-decreasing times.
CrossingInputs(n) ==
    {t \in [1..n -> 0..MaxCrossTime] :
        \A i \in 1..n : \A j \in i..n : t[i] <= t[j]}

InitBpm ==
    /\ IdlePage
    /\ SAMPLE_BUFFER = <<>>
    /\ \E n \in 0..MaxCrossings : \E t \in CrossingInputs(n) :
          result = [kind |-> "crossings",
                    samples |-> [i \in 1..n |->
                                    [value |-> 0, time |-> t[i], seq |-> 0]]]

\* const bpm = calculateBpm(crossings)
CalculateBpm ==
    /\ result.kind = "crossings"
    /\ result' = [kind |-> "bpm",
                  samples |-> result.samples,
                  bpm |-> calculateBpm(result.samples)]
    /\ UNCHANGED <<MONITORING, VIDEO_STREAM, SAMPLE_BUFFER, bpmDisplay, now,
                   calls, rafPending, torchSupport, torchReport, stopped,
                   sessionRan, pushCount, nextSeq>>

NextBpm == CalculateBpm

SpecBpm == InitBpm /\ [][NextBpm]_vars

\* ------------------------------------------------------------ drawGraph
\* const lineWidth = 6 (GRAPH_WIDTH in the module of README.md)
lineWidth == 6

\* A y coordinate is the fraction num / den; 0 / 0 is NaN.
IsNaN(y) == y.den = 0

\* y != previousY: NaN differs from every value, itself included.
Differs(y, previousY) ==
    \/ IsNaN(y)
    \/ IsNaN(previousY)
    \/ y.num * previousY.den # previousY.num * y.den

\* maxHeight * (sample.value - dataStats.min) / (dataStats.max - dataStats.min)
\*     + ctx.lineWidth
\* The module of README.md computes it for sample.value !== 0 only and takes
\* the line width otherwise.
GraphY(sample, dataStats, height, module) ==
    LET maxHeight == height - lineWidth * 2
        den == dataStats.max - dataStats.min
    IN IF module /\ sample.value = 0
       THEN [num |-> lineWidth, den |-> 1]
       ELSE IF den = 0
       THEN [num |-> 0, den |-> 0]
       ELSE [num |-> maxHeight * (sample.value - dataStats.min)
                         + lineWidth * den,
             den |-> den]

\* samples.forEach((sample, i) => ...), i counted from 1 here: the lineTo
\* calls made.  x is kept times MAX_SAMPLES:
\* x = xScaling * (i - 1) + xOffset, xScaling = width / MAX_SAMPLES,
\* xOffset = (MAX_SAMPLES - samples.length) * xScaling.
RECURSIVE GraphLoop(_, _, _, _, _, _, _, _)
GraphLoop(samples, dataStats, width, height, module, i, previousY, points) ==
    IF i > Len(samples) THEN points
    ELSE LET x == width * (i - 1) + (MAX_SAMPLES - Len(samples)) * width
             y == GraphY(samples[i], dataStats, height, module)
         IN GraphLoop(samples, dataStats, width, height, module, i + 1, y,
                IF Differs(y, previousY)
                THEN Append(points, [x |-> x, y |-> y])
                ELSE points)

\* drawGraph of src/main.js, on a canvas of the given size
drawGraph(samples, dataStats, width, height) ==
    GraphLoop(samples, dataStats, width, height, FALSE, 1,
              [num |-> 0, den |-> 1], <<>>)

\* drawGraph of the heartRateMonitor module of README.md
drawGraphModule(samples, dataStats, width, height) ==
    GraphLoop(samples, dataStats, width, height, TRUE, 1,
              [num |-> 0, den |-> 1], <<>>)

\* The y of every sample, emitted or not.
GraphYs(samples, dataStats, height, module) ==
    [i \in DOMAIN samples |-> GraphY(samples[i], dataStats, height, module)]

CanvasWidths == 1..MaxCanvasWidth
CanvasHeights == (lineWidth * 2 + 1)..(lineWidth * 2 + MaxPlotHeight)

\* Every buffer of 1..MAX_SAMPLES samples with values in 0..MaxValue.
InitGraph ==
    /\ IdlePage
    /\ \E n \in 1..MAX_SAMPLES : \E v \in [1..n -> 0..MaxValue] :
          SAMPLE_BUFFER = BufferOf(v, [i \in 1..n |-> 0])
    /\ result = [kind |-> "none"]

\* const dataStats = analyzeData(SAMPLE_BUFFER); drawGraph(dataStats);
DrawGraph ==
    /\ result.kind = "none"
    /\ \E width \in CanvasWidths, height \in CanvasHeights :
          result' =
              LET dataStats == analyzeData(SAMPLE_BUFFER)
              IN [kind |-> "graph",
                  width |-> width,
                  height |-> height,
                  dataStats |-> dataStats,
                  ys |-> GraphYs(SAMPLE_BUFFER, dataStats, height, FALSE),
                  ysModule |-> GraphYs(SAMPLE_BUFFER, dataStats, height, TRUE),
                  points |-> drawGraph(SAMPLE_BUFFER, dataStats, width, height),
                  pointsModule |->
                      drawGraphModule(SAMPLE_BUFFER, dataStats, width, height)]
    /\ UNCHANGED <<MONITORING, VIDEO_STREAM, SAMPLE_BUFFER, bpmDisplay, now,
                   calls, rafPending, torchSupport, torchReport, stopped,
                   sessionRan, pushCount, nextSeq>>

NextGraph == DrawGraph

SpecGraph == InitGraph /\ [][NextGraph]_vars

\* ------------------------------------------------------------ averageBrightness
\* getImageData(...).data of a canvas of n pixels: r, g, b, a per pixel, with
\* the r and g of the pixels in rg and their b and a in ba.
FrameOf(n, rg, ba) ==
    [i \in 1..(4 * n) |->
        LET pixel == (i - 1) \div 4
            channel == (i - 1) % 4
        IN IF channel < 2 THEN rg[2 * pixel + channel + 1]
           ELSE ba[2 * pixel + channel - 1]]

\* Every frame of 1..MaxPixels pixels with r and g in 0..MaxLevel and b and a
\* each at 0 or at MaxLevel; the buffer is empty, as after resetBuffer.
InitSampler ==
    /\ IdlePage
    /\ SAMPLE_BUFFER = <<>>
    /\ \E n \in 1..MaxPixels :
          \E rg \in [1..(2 * n) -> Levels], ba \in [1..(2 * n) -> {0, MaxLevel}] :
              result = [kind |-> "frame", pixelData |-> FrameOf(n, rg, ba)]

\* processFrame of the module on the empty buffer: value =
\* averageBrightness(...), SAMPLE_BUFFER.push({ value, time }).  The one
\* sample gives no crossing, so no BPM is reported.
SampleFrame ==
    /\ result.kind = "frame"
    /\ LET value == averageBrightness(result.pixelData)
       IN /\ result' = [kind |-> "brightness",
                        pixelData |-> result.pixelData,
                        value |-> value]
          /\ SAMPLE_BUFFER' =
                 PushSample(SAMPLE_BUFFER,
                            [value |-> value, time |-> now, seq |-> nextSeq])
    /\ UNCHANGED <<MONITORING, VIDEO_STREAM, bpmDisplay, now, calls,
                   rafPending, torchSupport, torchReport, stopped,
                   sessionRan, pushCount, nextSeq>>

NextSampler == SampleFrame

SpecSampler == InitSampler /\ [][NextSampler]_vars

\* ------------------------------------------------------------ a 72 BPM signal
\* MAX_SAMPLES of the code: 5 seconds of samples.
FullBufferLength == SamplesPerSecond * 5

\* 72 beats per minute: one beat every SamplesPerSecond * 60 / 72 samples.
SamplesPerBeat == (SamplesPerSecond * 60) \div 72
HalfBeat == SamplesPerBeat \div 2

\* One period of 10 samples of a sinusoid around 100 with amplitude 100,
\* rounded to integers, from its rising passage of the mean.
SineWave == <<100, 159, 195, 195, 159, 100, 41, 5, 5, 41>>

\* One period of a triangle wave: its mean lies between two sample values.
TriangleWave ==
    [k \in 1..SamplesPerBeat |->
        IF k - 1 <= HalfBeat THEN HalfBeat - (k - 1) ELSE (k - 1) - HalfBeat]

\* One period of a pulse, in quarters: 0.5 at its two edges, 0.75 for the
\* samples after the rising edge, 0.25 for those after the falling one.
PulseWave ==
    [k \in 1..SamplesPerBeat |->
        IF (k - 1) % HalfBeat = 0 THEN 2 ELSE IF k - 1 < HalfBeat THEN 3 ELSE 1]

Waves == {SineWave, TriangleWave, PulseWave}

\* The full buffer of a wave taken from the given phase on, its samples
\* 1000 / SamplesPerSecond ms apart: Date.now() returns whole milliseconds,
\* offset / SamplesPerSecond ms being the fraction of the first.
PeriodicBuffer(wave, phase, offset) ==
    BufferOf([i \in 1..FullBufferLength |->
                 wave[((i - 1 + phase) % SamplesPerBeat) + 1]],
             [i \in 1..FullBufferLength |->
                 (1000 * (i - 1) + offset) \div SamplesPerSecond])

InitPeriodic ==
    /\ IdlePage
    /\ \E wave \in Waves, phase \in 0..(SamplesPerBeat - 1),
          offset \in 0..(SamplesPerSecond - 1) :
          SAMPLE_BUFFER = PeriodicBuffer(wave, phase, offset)
    /\ result = [kind |-> "none"]

NextPeriodic == Analyze

SpecPeriodic == InitPeriodic /\ [][NextPeriodic]_vars

\* ------------------------------------------------------------ properties
\* A step that runs monitorLoop, so processFrame: one tick.
TickStep == Timer \/ Frame

\* monitorLoop invocations not yet run: unfired timers and animation frames.
PendingLoops == Cardinality({i \in CallIds : calls[i] = "timer"}) + rafPending

\* C1: under every sequence of resets and ticks the buffer never holds more
\* than MAX_SAMPLES samples, and a tick on a full buffer removes exactly the
\* oldest sample and keeps the others in place, while a tick on a buffer that
\* is not full removes nothing.
C1_BufferBounded ==
    /\ [](Len(SAMPLE_BUFFER) <= MAX_SAMPLES)
    /\ [][TickEffect =>
            IF Len(SAMPLE_BUFFER) = MAX_SAMPLES
            THEN /\ Len(SAMPLE_BUFFER') = MAX_SAMPLES
                 /\ \A i \in 1..(MAX_SAMPLES - 1) :
                        SAMPLE_BUFFER'[i] = SAMPLE_BUFFER[i + 1]
                 /\ SAMPLE_BUFFER'[MAX_SAMPLES].seq = nextSeq
            ELSE /\ Len(SAMPLE_BUFFER') = Len(SAMPLE_BUFFER) + 1
                 /\ \A i \in 1..Len(SAMPLE_BUFFER) :
                        SAMPLE_BUFFER'[i] = SAMPLE_BUFFER[i]]_vars

\* C1 witness: more than MAX_SAMPLES pushes since the reset, so a push has
\* evicted.
C1_Witness == pushCount > MAX_SAMPLES /\ Len(SAMPLE_BUFFER) = MAX_SAMPLES

\* C2: under every sequence of resets and ticks, after more than MAX_SAMPLES
\* ticks since the last reset the buffer holds exactly MAX_SAMPLES samples, the last MAX_SAMPLES pushed, in the
\* order pushed, with non-decreasing timestamps.
C2_MostRecentInOrder ==
    pushCount > MAX_SAMPLES =>
        /\ Len(SAMPLE_BUFFER) = MAX_SAMPLES
        /\ \A i \in 1..MAX_SAMPLES :
              SAMPLE_BUFFER[i].seq =
                  (nextSeq + 2 * SeqMod - MAX_SAMPLES - 1 + i) % SeqMod
        /\ \A i \in 1..MAX_SAMPLES : \A j \in i..MAX_SAMPLES :
              SAMPLE_BUFFER[i].time <= SAMPLE_BUFFER[j].time

\* C2 witness: a full buffer after an eviction whose samples were taken at
\* different times.
C2_Witness ==
    /\ pushCount > MAX_SAMPLES
    /\ Len(SAMPLE_BUFFER) = MAX_SAMPLES
    /\ SAMPLE_BUFFER[1].time < SAMPLE_BUFFER[MAX_SAMPLES].time

\* C3: at most one monitorLoop invocation is pending at any time.
C3_SingleTickStream == PendingLoops <= 1

\* C4: once stopMonitoring has run and no startMonitoring call has followed,
\* no tick requests another animation frame.
C4_StopHonored == [][(stopped /\ TickStep) => ~MONITORING]_vars

\* C5: from stopMonitoring to the next startMonitoring call the buffer does
\* not change.
C5_StopKeepsBuffer ==
    [][(stopped /\ stopped') => SAMPLE_BUFFER' = SAMPLE_BUFFER]_vars

\* C6: no tick runs while a startMonitoring call is between its reset and
\* the firing of its own timer.
C6_NoTickBeforeTimer ==
    [][TickStep =>
         \A j \in CallIds : calls'[j] \notin {"devices", "stream", "timer"}]_vars

\* C7: resetBuffer never runs while a tick loop is alive, and never twice
\* without MONITORING having been set in between.
C7_ResetOncePerSession ==
    [][Start => (~MONITORING /\ PendingLoops = 0 /\ sessionRan)]_vars

\* C8: when a start attempt ends without a camera stream, MONITORING is
\* false (so the next toggle starts again) and the buffer is empty.
C8_FailedStartLeavesIdle ==
    [][(\E i \in CallIds : calls[i] # "failed" /\ calls'[i] = "failed") =>
         (~MONITORING' /\ SAMPLE_BUFFER' = <<>>)]_vars

\* C9: a torch failure in a startMonitoring call that obtained the stream is
\* reported, and the call still sets MONITORING and the timer.
C9_TorchFailureReported ==
    \A i \in CallIds :
        torchReport[i] \in {"alert", "silent"} =>
            (torchReport[i] = "alert" /\ calls[i] \in {"timer", "done"})

\* The sum of the values of a sample sequence.
ValueTotal(samples) ==
    LET total[i \in 0..Len(samples)] ==
            IF i = 0 THEN 0 ELSE total[i - 1] + samples[i].value
    IN total[Len(samples)]

\* The positions i >= 2 (the code's i >= 1) where the previous value is above
\* the mean and the value at i below it.
CrossingPositions(samples) ==
    {i \in 2..Len(samples) :
        /\ samples[i - 1].value * Len(samples) > ValueTotal(samples)
        /\ samples[i].value * Len(samples) < ValueTotal(samples)}

\* C10: the crossings analyzeData returns are exactly the samples at the
\* crossing positions, in chronological order, and never the first sample.
C10_CrossingsExact ==
    result.kind = "done" =>
        LET crossings == result.dataStats.crossings
            positions == CrossingPositions(SAMPLE_BUFFER)
        IN /\ Len(crossings) = Cardinality(positions)
           /\ \A k \in 1..Len(crossings) :
                \E i \in positions :
                    /\ Cardinality({j \in positions : j <= i}) = k
                    /\ crossings[k] = SAMPLE_BUFFER[i]
           /\ \A k \in 1..Len(crossings) : crossings[k].seq # SAMPLE_BUFFER[1].seq

\* C10 witness: an analysed buffer with a crossing.
C10_Witness ==
    /\ result.kind = "done"
    /\ Len(result.dataStats.crossings) >= 1
    /\ Len(SAMPLE_BUFFER) >= 3

\* C11: a tick that leaves the buffer with fewer than 2 crossings leaves the
\* displayed BPM as it was; a tick changes the display only when its buffer
\* has at least 2 crossings.
C11_NoEstimateKeepsDisplay ==
    [][TickEffect =>
         (Cardinality(CrossingPositions(SAMPLE_BUFFER')) < 2 =>
              bpmDisplay' = bpmDisplay)]_vars

\* C11 witness: a value is on display and the last tick, on a full buffer,
\* found fewer than 2 crossings.
C11_Witness ==
    /\ bpmDisplay.text # ""
    /\ Len(SAMPLE_BUFFER) = MAX_SAMPLES
    /\ pushCount > MAX_SAMPLES
    /\ Cardinality(CrossingPositions(SAMPLE_BUFFER)) < 2

\* The time between the first and the last crossing of a sequence.
CrossingSpan(samples) == samples[Len(samples)].time - samples[1].time

ValuesOf(samples) == {samples[i].value : i \in DOMAIN samples}

\* C13: for every non-empty sample sequence analyzeData returns
\* min <= average <= max and range = max - min >= 0, with average the sum of
\* the values over their number and min and max the smallest and the largest
\* value of the sequence.
C13_StatsOrdered ==
    result.kind = "done" =>
        LET dataStats == result.dataStats
            values == ValuesOf(SAMPLE_BUFFER)
            n == Len(SAMPLE_BUFFER)
        IN /\ dataStats.min \in values
           /\ \A v \in values : dataStats.min <= v
           /\ dataStats.max \in values
           /\ \A v \in values : v <= dataStats.max
           /\ dataStats.average.den > 0
           /\ dataStats.average.num * n
                  = ValueTotal(SAMPLE_BUFFER) * dataStats.average.den
           /\ dataStats.min * dataStats.average.den <= dataStats.average.num
           /\ dataStats.average.num <= dataStats.max * dataStats.average.den
           /\ dataStats.range = dataStats.max - dataStats.min
           /\ dataStats.range >= 0

\* C13 witness: a sequence whose first value is neither its smallest nor its
\* largest, analyzed, with the average strictly between min and max.
C13_Witness ==
    /\ result.kind = "done"
    /\ Len(SAMPLE_BUFFER) >= 3
    /\ result.dataStats.min < SAMPLE_BUFFER[1].value
    /\ SAMPLE_BUFFER[1].value < result.dataStats.max
    /\ Below(result.dataStats.min, result.dataStats.average)
    /\ Above(result.dataStats.max, result.dataStats.average)

\* y is the inset: a number equal to the line width.
AtInset(y) == ~IsNaN(y) /\ y.num = lineWidth * y.den

\* C14: when the buffer is flat (max = min), whatever its value and its
\* length, every y the renderer computes and every point it emits is at the
\* inset (the line width), never NaN.
C14_FlatGraphAtInset ==
    (result.kind = "graph" /\ result.dataStats.max = result.dataStats.min) =>
        /\ \A i \in DOMAIN result.ys : AtInset(result.ys[i])
        /\ \A i \in DOMAIN result.points : AtInset(result.points[i].y)
        /\ \A i \in DOMAIN result.ysModule : AtInset(result.ysModule[i])
        /\ \A i \in DOMAIN result.pointsModule :
              AtInset(result.pointsModule[i].y)

\* C15: the x of the points emitted never decreases along the path, and for a
\* full buffer the last point emitted is at x = width - xScale, that is
\* x * MAX_SAMPLES = width * (MAX_SAMPLES - 1).
C15_GraphReachesRightEdge ==
    result.kind = "graph" =>
        \A points \in {result.points, result.pointsModule} :
            /\ \A i \in DOMAIN points : \A j \in DOMAIN points :
                  i <= j => points[i].x <= points[j].x
            /\ Len(SAMPLE_BUFFER) = MAX_SAMPLES =>
                  /\ Len(points) > 0
                  /\ points[Len(points)].x = result.width * (MAX_SAMPLES - 1)

\* C16: for a buffer whose samples all have the same value, a buffer of one
\* sample included, analyzeData returns no crossings and range 0, and
\* calculateBpm on these crossings returns no estimate.
C16_FlatBufferNoEstimate ==
    (result.kind = "done" /\ Cardinality(ValuesOf(SAMPLE_BUFFER)) = 1) =>
        /\ result.dataStats.crossings = <<>>
        /\ result.dataStats.range = 0
        /\ result.bpm.kind = "undefined"

\* C16 witness: a buffer of several samples of one non-zero value, analyzed.
C16_Witness ==
    /\ result.kind = "done"
    /\ Len(SAMPLE_BUFFER) >= 2
    /\ \A i \in DOMAIN SAMPLE_BUFFER : SAMPLE_BUFFER[i].value = MaxValue
    /\ result.bpm.kind = "undefined"

\* The total of one channel (0: r, 1: g, 2: b, 3: a) over the first n pixels.
RECURSIVE ChannelTotal(_, _, _)
ChannelTotal(pixelData, channel, n) ==
    IF n = 0 THEN 0
    ELSE pixelData[4 * (n - 1) + channel + 1]
         + ChannelTotal(pixelData, channel, n - 1)

\* The frames that differ from pixelData in the b and a channels at most.
SameRedGreen(pixelData) ==
    LET n == Len(pixelData) \div 4
    IN {FrameOf(n,
                [k \in 1..(2 * n) |->
                    pixelData[4 * ((k - 1) \div 2) + ((k - 1) % 2) + 1]],
                ba) : ba \in [1..(2 * n) -> {0, MaxLevel}]}

\* The fraction lies in [0, 1].
InUnitInterval(value) ==
    value.den > 0 /\ 0 <= value.num /\ value.num <= value.den

\* C17: averageBrightness returns (sum of the r and g values of all pixels)
\* / (totalPixels * 2 * MaxLevel), MaxLevel standing for 255; the value lies in
\* [0, 1] and is the same for every frame with these r and g values, whatever
\* its b and a; so the sample pushed has a value in [0, 1].
C17_BrightnessRedGreen ==
    result.kind = "brightness" =>
        LET pixelData == result.pixelData
            totalPixels == Len(pixelData) \div 4
            redGreen == ChannelTotal(pixelData, 0, totalPixels)
                        + ChannelTotal(pixelData, 1, totalPixels)
        IN /\ result.value.num * (totalPixels * 2 * MaxLevel)
                  = redGreen * result.value.den
           /\ InUnitInterval(result.value)
           /\ \A other \in SameRedGreen(pixelData) :
                  LET otherValue == averageBrightness(other)
                  IN otherValue.num * result.value.den
                         = result.value.num * otherValue.den
           /\ \A i \in DOMAIN SAMPLE_BUFFER :
                  InUnitInterval(SAMPLE_BUFFER[i].value)

\* C17 witness: a frame of several pixels with b and a lit somewhere, whose
\* brightness is strictly between 0 and 1 and is in the buffer.
C17_Witness ==
    /\ result.kind = "brightness"
    /\ Len(result.pixelData) = 4 * MaxPixels
    /\ result.pixelData[3] = MaxLevel
    /\ result.pixelData[4] = MaxLevel
    /\ result.pixelData[1] # result.pixelData[2]
    /\ 0 < result.value.num
    /\ result.value.num < result.value.den
    /\ Len(SAMPLE_BUFFER) = 1
    /\ SAMPLE_BUFFER[1].value = result.value

\* C18: for a full buffer (5 seconds) of a signal of 72 beats per minute, a
\* period of SamplesPerBeat samples, at every phase, the analysis finds 5 or 6
\* crossings and calculateBpm returns a value within 2 of 72.
C18_PeriodicSignal72 ==
    result.kind = "done" =>
        /\ Len(result.dataStats.crossings) \in {5, 6}
        /\ result.bpm.kind = "number"
        /\ 70 * result.bpm.den <= result.bpm.num
        /\ result.bpm.num <= 74 * result.bpm.den

\* C19: for every buffer and positions i < j with the sample at i above the
\* average and the sample at j below it, a crossing is recorded at a
\* position in (i, j].
C19_EveryFallDetected ==
    result.kind = "done" =>
        LET n == Len(SAMPLE_BUFFER)
            total == ValueTotal(SAMPLE_BUFFER)
            crossings == result.dataStats.crossings
        IN \A i \in 1..n : \A j \in (i + 1)..n :
               (/\ SAMPLE_BUFFER[i].value * n > total
                /\ SAMPLE_BUFFER[j].value * n < total)
               => \E c \in DOMAIN crossings : \E k \in (i + 1)..j :
                      crossings[c] = SAMPLE_BUFFER[k]

\* C20: when timers and animation frame callbacks are run, a stopMonitoring
\* that no startMonitoring call follows leads to a state from which no
\* monitorLoop invocation is pending any more, so that no tick changes the
\* buffer or the displayed BPM again.
C20_LoopTerminates == (<>[]stopped) => <>[](PendingLoops = 0)

\* C21: under every sequence of resets and ticks, the buffer analyzeData is
\* called on, the buffer of the tick once the sample is pushed and the oldest
\* one shifted out, holds at least one sample, the newest one being the
\* sample of this tick; so samples[0] and the reduce have a value to read.
C21_AnalyzedBufferNotEmpty ==
    [][TickEffect =>
         /\ ~AnalysisFaults(SAMPLE_BUFFER')
         /\ Len(SAMPLE_BUFFER') >= 1
         /\ SAMPLE_BUFFER'[Len(SAMPLE_BUFFER')].seq = nextSeq
         /\ SAMPLE_BUFFER'[Len(SAMPLE_BUFFER')].time = now']_vars

\* C21 witness: a tick has run on the buffer a reset had just emptied, in a
\* run that had displayed a BPM before the reset.
C21_Witness ==
    /\ pushCount = 1
    /\ Len(SAMPLE_BUFFER) = 1
    /\ bpmDisplay.text # ""

\* C22: with a clock that never goes back, every BPM a tick passes to the
\* display is a finite positive number: the display never shows Infinity.
C22_EstimateFinitePositive ==
    /\ bpmDisplay.text # "Infinity"
    /\ bpmDisplay.text = "number" => bpmDisplay.value > 0

====
